---- MODULE Spec2Model ----
(***************************************************************************)
(* A model of cpace (src/src/lib.rs): a CPACE-inspired PAKE over           *)
(* ristretto255 and STROBE.  Two APIs are modelled: the asynchronous       *)
(* Exchanger (new / send / receive) and the Initiator / Responder pair     *)
(* (new / start / finish).                                                 *)
(*                                                                         *)
(* Byte strings are sequences of small naturals.  The STROBE duplex is     *)
(* modelled by the framed stream of everything it has absorbed (operation  *)
(* flags, data length, data), and its PRF output by that stream: the       *)
(* duplex is taken to be collision free.  The group is a group of prime    *)
(* order GroupOrder; a point is a generator (the uniform bytes it was      *)
(* mapped from) and its multiple of that generator, the relation between   *)
(* two generators being unknown.  The bytes of a compressed point stand    *)
(* for the 32 bytes of the encoding up to equality; which of two encodings *)
(* is the lexically smaller is not known before the bytes are compared,    *)
(* and `order` holds the comparisons made so far.                          *)
(***************************************************************************)
EXTENDS Integers, Sequences, FiniteSets, TLC

VARIABLES ex, net, ini, res, wire, order

vars == <<ex, net, ini, res, wire, order>>

-----------------------------------------------------------------------------
(* Bounds of the model. *)

\* The bytes of passwords and salts are 1..MaxByte.
MaxByte == 2
\* The bytes of identities are 1..MaxIdByte.
MaxIdByte == 1
\* The bytes of the session ids a caller may hold are 1..MaxSidByte.
MaxSidByte == 1
\* The 64 random bytes, read as an integer, range over 0..MaxRand.
MaxRand == 4
\* How many times start may be called on one Initiator or Responder.
MaxStarts == 1
\* How many times send may be called on one Exchanger.
MaxSends == 2
\* How many calls of start beyond MaxStarts one run may hold, over both
\* parties, where repeated starts are studied.
MaxRestarts == 1
\* How many Exchangers, Initiators and Responders one run constructs.
MaxObjects == 2

\* The order of the group (the prime l of ristretto255, scaled down).
GroupOrder == 3

-----------------------------------------------------------------------------
(* Byte strings. *)

RECURSIVE StringsOfLen(_, _)
StringsOfLen(n, maxByte) ==
    IF n = 0 THEN {<<>>}
    ELSE {Append(s, b) : s \in StringsOfLen(n - 1, maxByte), b \in 1..maxByte}

ByteStrings(lo, hi, maxByte) == UNION {StringsOfLen(n, maxByte) : n \in lo..hi}

\* Identities: the empty string and the strings of one byte.
Ids == ByteStrings(0, 1, MaxIdByte)
\* Passwords: the strings of one byte.
Passwords == ByteStrings(1, 1, MaxByte)
\* Salts ([u8; 16] in the source): arrays of one byte.
Salts == StringsOfLen(1, MaxByte)
\* A caller holds no session id or a string of one byte.
NoSession == <<>>
SessionIds == {NoSession} \cup ByteStrings(1, 1, MaxSidByte)
RandWide == 0..MaxRand

MinOf(a, b) == IF a < b THEN a ELSE b

\* The order of Rust slices: a < b, lexicographically.
LexLess(a, b) ==
    \E i \in 1..(MinOf(Len(a), Len(b)) + 1) :
        /\ \A j \in 1..(i - 1) : a[j] = b[j]
        /\ IF i <= Len(a) /\ i <= Len(b)
           THEN a[i] < b[i]
           ELSE i > Len(a) /\ i <= Len(b)

-----------------------------------------------------------------------------
(* The group: ristretto255 points and scalars. *)

Identity == [gen |-> <<>>, k |-> 0]

\* Scalar::from_bytes_mod_order_wide
from_bytes_mod_order_wide(r) == r % GroupOrder

\* RistrettoPoint::from_uniform_bytes
from_uniform_bytes(r) == [gen |-> r, k |-> 1]

\* point * scalar
PointMul(P, s) ==
    LET k == (P.k * s) % GroupOrder
    IN  IF k = 0 THEN Identity ELSE [gen |-> P.gen, k |-> k]

\* CompressedRistretto bytes: canonical (equal points have equal bytes, others
\* differ), the identity is all zeros.  The bytes name the encoding; their
\* lexical order is that of EncodingOrders, not that of the names.
compress(P) == IF P.k = 0 THEN <<0>> ELSE <<P.k>> \o P.gen

is_identity(P) == P = Identity

\* The outcomes that a < b can have for two compressed encodings, given the
\* comparisons made so far: equal bytes are not smaller, the all-zero bytes of
\* the identity are smaller than any others, a comparison made before (or
\* following from two made before) has the same outcome again, and of two
\* encodings never compared either can be the smaller.
EncodingOrders(a, b) ==
    IF a = b THEN {FALSE}
    ELSE IF a = compress(Identity) THEN {TRUE}
    ELSE IF b = compress(Identity) THEN {FALSE}
    ELSE IF <<a, b>> \in order
            \/ \E c \in {o[2] : o \in order} :
                  <<a, c>> \in order /\ <<c, b>> \in order
         THEN {TRUE}
    ELSE IF <<b, a>> \in order
            \/ \E c \in {o[2] : o \in order} :
                  <<b, c>> \in order /\ <<c, a>> \in order
         THEN {FALSE}
    ELSE BOOLEAN

\* a < b is known to hold.
EncodingLess(a, b) == EncodingOrders(a, b) = {TRUE}

\* What comparing a with b adds to the comparisons made so far.
Compared(a, b, less) ==
    IF a = b THEN {} ELSE IF less THEN {<<a, b>>} ELSE {<<b, a>>}

-----------------------------------------------------------------------------
(* The STROBE duplex. *)

\* Operation flags of STROBE.
FlagI == 1
FlagA == 2
FlagC == 4
FlagT == 8

DomainLabel == <<9, 9>>

\* Strobe::new
StrobeNew(label) == [st |-> label, is_receiver |-> "None"]

\* begin_op and the operation's data: a transport operation fixes the role at
\* its first use, and a receiver has the I flag of transport operations toggled.
Operate(s, flags, transport, inbound, data) ==
    LET role == IF transport /\ s.is_receiver = "None"
                THEN (IF inbound THEN "Some(true)" ELSE "Some(false)")
                ELSE s.is_receiver
        toggled == IF transport /\ role = "Some(true)"
                   THEN (IF inbound THEN flags - FlagI ELSE flags + FlagI)
                   ELSE flags
    IN  [st |-> s.st \o <<toggled, Len(data)>> \o data, is_receiver |-> role]

ad(s, data) == Operate(s, FlagA, FALSE, FALSE, data)
key(s, data) == Operate(s, FlagA + FlagC, FALSE, FALSE, data)
send_clr(s, data) == Operate(s, FlagA + FlagT, TRUE, FALSE, data)
recv_clr(s, data) == Operate(s, FlagI + FlagA + FlagT, TRUE, TRUE, data)

\* Strobe::prf of n bytes: the duplex after the operation, and the output.
prf_state(s, n) == Operate(s, FlagI + FlagA + FlagC, FALSE, FALSE, <<n>>)
prf_out(s, n) == prf_state(s, n).st

\* The 16 bytes the tests extract from a finished protocol.
Prf16(s) == prf_out(s, 16)

-----------------------------------------------------------------------------
(* Exchanger: the asynchronous exchange. *)

Parties == {"alice", "bea"}

\* Exchanger::new adding the ids in the order given.
NewExchanger_unsorted(id_a, id_b, password, r) ==
    LET c3 == key(ad(ad(StrobeNew(DomainLabel), id_a), id_b), password)
        d  == from_bytes_mod_order_wide(r)
        g  == from_uniform_bytes(prf_out(c3, 64))
    IN  [cpace |-> prf_state(c3, 64), d |-> d, y |-> PointMul(g, d)]

\* Exchanger::new without the key operation on the password.
NewExchanger_nopassword(id_a, id_b, password, r) ==
    LET c1 == ad(StrobeNew(DomainLabel), IF LexLess(id_a, id_b) THEN id_a ELSE id_b)
        c3 == ad(c1, IF LexLess(id_a, id_b) THEN id_b ELSE id_a)
        d  == from_bytes_mod_order_wide(r)
        g  == from_uniform_bytes(prf_out(c3, 64))
    IN  [cpace |-> prf_state(c3, 64), d |-> d, y |-> PointMul(g, d)]

\* Exchanger::new adding the lexically smaller id twice.
NewExchanger_smallertwice(id_a, id_b, password, r) ==
    LET c1 == ad(StrobeNew(DomainLabel), IF LexLess(id_a, id_b) THEN id_a ELSE id_b)
        c2 == ad(c1, IF LexLess(id_a, id_b) THEN id_a ELSE id_b)
        c3 == key(c2, password)
        d  == from_bytes_mod_order_wide(r)
        g  == from_uniform_bytes(prf_out(c3, 64))
    IN  [cpace |-> prf_state(c3, 64), d |-> d, y |-> PointMul(g, d)]

\* Exchanger::new extracting the generator before keying with the password.
NewExchanger_generatorfirst(id_a, id_b, password, r) ==
    LET c1 == ad(StrobeNew(DomainLabel), IF LexLess(id_a, id_b) THEN id_a ELSE id_b)
        c2 == ad(c1, IF LexLess(id_a, id_b) THEN id_b ELSE id_a)
        d  == from_bytes_mod_order_wide(r)
        g  == from_uniform_bytes(prf_out(c2, 64))
    IN  [cpace |-> key(prf_state(c2, 64), password), d |-> d,
         y |-> PointMul(g, d)]

\* Exchanger::new(id_a, id_b, password), r being the 64 random bytes.
NewExchanger(id_a, id_b, password, r) ==
    LET c0 == StrobeNew(DomainLabel)
        \* Add the ids in lexical order.
        c1 == ad(c0, IF LexLess(id_a, id_b) THEN id_a ELSE id_b)
        c2 == ad(c1, IF LexLess(id_a, id_b) THEN id_b ELSE id_a)
        \* Key with the password.
        c3 == key(c2, password)
        d  == from_bytes_mod_order_wide(r)
        \* Extract a generator point from the protocol PRF output.
        g  == from_uniform_bytes(prf_out(c3, 64))
    IN  [cpace |-> prf_state(c3, 64), d |-> d, y |-> PointMul(g, d)]

\* Exchanger::send
ExchangerSend(e) == e.y

\* Exchanger::receive without the send_clr / recv_clr of the two points.
ExchangerReceive_norecord(e, y, less) ==
    key(e.cpace, compress(PointMul(y, e.d)))

\* Exchanger::receive refusing a shared point that is the identity (no Strobe).
ExchangerReceive_checked(e, y, less) ==
    LET y_local  == compress(e.y)
        y_remote == compress(y)
        c1 == IF less
              THEN recv_clr(send_clr(e.cpace, y_local), y_remote)
              ELSE send_clr(recv_clr(e.cpace, y_remote), y_local)
    IN  IF PointMul(y, e.d) = Identity
        THEN StrobeNew(<<>>)
        ELSE key(c1, compress(PointMul(y, e.d)))

\* Exchanger::receive marking the send as happening first in every case.
ExchangerReceive_sendfirst(e, y, less) ==
    LET c1 == recv_clr(send_clr(e.cpace, compress(e.y)), compress(y))
    IN  key(c1, compress(PointMul(y, e.d)))

\* Exchanger::receive(self, y): the Strobe it returns, `less` being the outcome
\* of y_local < y_remote on the bytes of the two encodings.
ExchangerReceive(e, y, less) ==
    LET y_local  == compress(e.y)
        y_remote == compress(y)
        c1 == IF less
              THEN recv_clr(send_clr(e.cpace, y_local), y_remote)
              ELSE send_clr(recv_clr(e.cpace, y_remote), y_local)
    IN  key(c1, compress(PointMul(y, e.d)))

\* A point an attacker can make up: from_uniform_bytes of bytes of its choice.
ArbitraryPoint == from_uniform_bytes(<<6, 9>>)

NoStrobe == StrobeNew(<<>>)

AbsentExchanger ==
    [state |-> "Absent", id_a |-> <<>>, id_b |-> <<>>, password |-> <<>>,
     session_id |-> NoSession, cpace |-> NoStrobe, d |-> 0, y |-> Identity,
     y_remote |-> Identity, out |-> NoStrobe]

\* Points that can be handed to receive: those sent, and the attacker's.
Deliverable == {m.pt : m \in net} \cup {Identity, ArbitraryPoint}

\* The Exchangers, Initiators and Responders constructed so far.
Constructed ==
    Cardinality({p \in Parties : ex[p].state # "Absent"})
        + (IF ini.state # "Absent" THEN 1 ELSE 0)
        + (IF res.state # "Absent" THEN 1 ELSE 0)

\* Every object a run can hold: the Exchangers, the Initiator, the Responder.
AllObjects == Cardinality(Parties) + 2

\* let p = Exchanger::new(id_a, id_b, password), in a run that constructs up
\* to `objects` objects, by a caller that holds one of the session ids `held`,
\* for which Exchanger::new has no parameter: the session id stays with the
\* caller and the Exchanger is built without it.
ExNewAmong(p, held, objects) ==
    /\ Constructed < objects
    /\ ex[p].state = "Absent"
    /\ \E id_a \in Ids, id_b \in Ids, password \in Passwords,
          session_id \in held, r \in RandWide :
          LET e == NewExchanger(id_a, id_b, password, r)
          IN  ex' = [ex EXCEPT ![p] =
                        [state |-> "Created", id_a |-> id_a, id_b |-> id_b,
                         password |-> password, session_id |-> session_id,
                         cpace |-> e.cpace, d |-> e.d, y |-> e.y,
                         y_remote |-> Identity, out |-> NoStrobe]]
    /\ UNCHANGED <<net, ini, res, wire, order>>

ExNewHolding(p, held) == ExNewAmong(p, held, MaxObjects)

\* Exchanger::new as the tests call it: no session id anywhere.
ExNew(p) == ExNewHolding(p, {NoSession})

\* Exchanger::new called by a program that holds a session id, or none, for
\* the exchange: the three arguments are all it can pass.
ExNewSession(p) == ExNewHolding(p, SessionIds)

\* The calls of p.send() so far: each put a message on the network.
SentBy(p) == {m \in net : m.from = p}

\* send absorbing the point into the protocol, as Initiator::start does.
ExSend_recording(p) ==
    /\ ex[p].state = "Created"
    /\ Cardinality(SentBy(p)) < MaxSends
    /\ net' = net \cup {[from |-> p, pt |-> ExchangerSend(ex[p]),
                          n |-> Cardinality(SentBy(p)) + 1]}
    /\ ex' = [ex EXCEPT ![p].cpace = send_clr(ex[p].cpace, compress(ex[p].y))]
    /\ UNCHANGED <<ini, res, wire, order>>

\* p.send(): the n-th call puts the point it returns on the network; the
\* Exchanger is only read.
ExSend(p) ==
    /\ ex[p].state = "Created"
    /\ Cardinality(SentBy(p)) < MaxSends
    /\ net' = net \cup {[from |-> p, pt |-> ExchangerSend(ex[p]),
                          n |-> Cardinality(SentBy(p)) + 1]}
    /\ UNCHANGED <<ex, ini, res, wire, order>>

\* receive taking &self: the Exchanger stays usable.
ExReceive_reusable(p) ==
    /\ ex[p].state = "Created"
    /\ \E y \in Deliverable :
          \E less \in EncodingOrders(compress(ex[p].y), compress(y)) :
             /\ ex' = [ex EXCEPT ![p].y_remote = y,
                                  ![p].out = ExchangerReceive(ex[p], y, less)]
             /\ order' = order \cup Compared(compress(ex[p].y), compress(y),
                                             less)
    /\ UNCHANGED <<net, ini, res, wire>>

\* receive absorbing the point into the other Exchanger's protocol as well, as
\* with one protocol object shared by the Exchangers.
ExReceive_shared(p) ==
    /\ ex[p].state = "Created"
    /\ \E y \in Deliverable :
          \E less \in EncodingOrders(compress(ex[p].y), compress(y)) :
             /\ ex' = [q \in Parties |->
                         IF q = p
                         THEN [ex[p] EXCEPT
                                 !.state = "Finalized", !.y_remote = y,
                                 !.out = ExchangerReceive(ex[p], y, less)]
                         ELSE [ex[q] EXCEPT
                                 !.cpace = recv_clr(ex[q].cpace, compress(y))]]
             /\ order' = order \cup Compared(compress(ex[p].y), compress(y),
                                             less)
    /\ UNCHANGED <<net, ini, res, wire>>

\* receive that must wait until the first party has called its receive.
ExReceive_afterpeer(p) ==
    /\ ex[p].state = "Created"
    /\ p = "alice" \/ ex["alice"].state = "Finalized"
    /\ \E y \in Deliverable :
          \E less \in EncodingOrders(compress(ex[p].y), compress(y)) :
             /\ ex' = [ex EXCEPT ![p].state = "Finalized",
                                  ![p].y_remote = y,
                                  ![p].out = ExchangerReceive(ex[p], y, less)]
             /\ order' = order \cup Compared(compress(ex[p].y), compress(y),
                                             less)
    /\ UNCHANGED <<net, ini, res, wire>>

\* p.receive(y): consumes the Exchanger and returns the Strobe.  The bytes of
\* the two encodings are compared here: a comparison not made before can go
\* either way.
ExReceive(p) ==
    /\ ex[p].state = "Created"
    /\ \E y \in Deliverable :
          \E less \in EncodingOrders(compress(ex[p].y), compress(y)) :
             /\ ex' = [ex EXCEPT ![p].state = "Finalized",
                                  ![p].y_remote = y,
                                  ![p].out = ExchangerReceive(ex[p], y, less)]
             /\ order' = order \cup Compared(compress(ex[p].y), compress(y),
                                             less)
    /\ UNCHANGED <<net, ini, res, wire>>

-----------------------------------------------------------------------------
(* Initiator and Responder: the two-message exchange with salts. *)

\* Initiator::new(initiator_id, responder_id, password), r and salt being the
\* random bytes it reads.
NewInitiator(initiator_id, responder_id, password, r, salt) ==
    LET c0 == StrobeNew(DomainLabel)
        c1 == ad(c0, initiator_id)
        c2 == ad(c1, responder_id)
        c3 == key(c2, password)
    IN  [cpace |-> c3, salt |-> salt, d |-> from_bytes_mod_order_wide(r)]

\* Initiator::start as a pure observation: the point is derived on a copy of
\* the protocol and self is left as it was.
InitiatorStart_pure(i) ==
    LET c1 == send_clr(i.cpace, i.salt)
        g  == from_uniform_bytes(prf_out(c1, 64))
    IN  [cpace |-> i.cpace, a |-> PointMul(g, i.d)]

\* Initiator::start(&mut self): the protocol afterwards and the point returned
\* (with self.salt).
InitiatorStart(i) ==
    LET c1 == send_clr(i.cpace, i.salt)
        g  == from_uniform_bytes(prf_out(c1, 64))
        a  == PointMul(g, i.d)
        c2 == send_clr(prf_state(c1, 64), compress(a))
    IN  [cpace |-> c2, a |-> a]

\* Initiator::finish(self, salt, b): the Strobe it returns.
InitiatorFinish(i, salt, b) ==
    LET c1 == recv_clr(i.cpace, salt)
        c2 == recv_clr(c1, compress(b))
    IN  key(c2, compress(PointMul(b, i.d)))

\* Responder::new(responder_id, initiator_id, password)
NewResponder(responder_id, initiator_id, password, r, salt) ==
    LET c0 == StrobeNew(DomainLabel)
        c1 == ad(c0, initiator_id)
        c2 == ad(c1, responder_id)
        c3 == key(c2, password)
    IN  [cpace |-> c3, salt |-> salt, d |-> from_bytes_mod_order_wide(r)]

\* Responder::start keying with its own point b * d instead of a * d.
ResponderStart_ownkey(rs, salt, a) ==
    LET c1 == recv_clr(rs.cpace, salt)
        b  == PointMul(from_uniform_bytes(prf_out(c1, 64)), rs.d)
        c2 == recv_clr(prf_state(c1, 64), compress(a))
        c4 == send_clr(send_clr(c2, rs.salt), compress(b))
    IN  [cpace |-> key(c4, compress(PointMul(b, rs.d))), b |-> b]

\* Responder::start receiving self.salt instead of the salt argument.
ResponderStart_ownsalt(rs, salt, a) ==
    LET c1 == recv_clr(rs.cpace, rs.salt)
        b  == PointMul(from_uniform_bytes(prf_out(c1, 64)), rs.d)
        c2 == recv_clr(prf_state(c1, 64), compress(a))
        c4 == send_clr(send_clr(c2, rs.salt), compress(b))
    IN  [cpace |-> key(c4, compress(PointMul(a, rs.d))), b |-> b]

\* Responder::start(&mut self, salt, a): the protocol afterwards and the point
\* returned (with self.salt).
ResponderStart(rs, salt, a) ==
    LET c1 == recv_clr(rs.cpace, salt)
        g  == from_uniform_bytes(prf_out(c1, 64))
        b  == PointMul(g, rs.d)
        c2 == recv_clr(prf_state(c1, 64), compress(a))
        c3 == send_clr(c2, rs.salt)
        c4 == send_clr(c3, compress(b))
        c5 == key(c4, compress(PointMul(a, rs.d)))
    IN  [cpace |-> c5, b |-> b]

\* Responder::finish(self)
ResponderFinish(rs) == rs.cpace

NoSalt == <<>>

AbsentInitiator ==
    [state |-> "Absent", starts |-> 0, initiator_id |-> <<>>,
     responder_id |-> <<>>, password |-> <<>>, cpace |-> NoStrobe,
     salt |-> NoSalt, d |-> 0, a |-> Identity, rx_salt |-> NoSalt,
     rx_b |-> Identity, out |-> NoStrobe]

AbsentResponder ==
    [state |-> "Absent", starts |-> 0, responder_id |-> <<>>,
     initiator_id |-> <<>>, password |-> <<>>, cpace |-> NoStrobe,
     salt |-> NoSalt, d |-> 0, b |-> Identity, rx_salt |-> NoSalt,
     rx_a |-> Identity, out |-> NoStrobe]

\* Points that can be handed to the start or finish of the party `to`: those
\* the other party returned, and the attacker's.
DeliverableIR(to) ==
    {m.pt : m \in {w \in wire : w.from # to}} \cup {Identity, ArbitraryPoint}

\* Initiator::new in a run that constructs up to `objects` objects.
IniNewAmong(objects) ==
    /\ Constructed < objects
    /\ ini.state = "Absent"
    /\ \E initiator_id \in Ids, responder_id \in Ids, password \in Passwords,
          r \in RandWide, salt \in Salts :
          LET i == NewInitiator(initiator_id, responder_id, password, r, salt)
          IN  ini' = [AbsentInitiator EXCEPT
                        !.state = "New", !.initiator_id = initiator_id,
                        !.responder_id = responder_id, !.password = password,
                        !.cpace = i.cpace, !.salt = i.salt, !.d = i.d]
    /\ UNCHANGED <<ex, net, res, wire, order>>

IniNew == IniNewAmong(MaxObjects)

\* The calls of start beyond MaxStarts so far, over both parties.
Restarts ==
    (IF ini.starts > MaxStarts THEN ini.starts - MaxStarts ELSE 0)
        + (IF res.starts > MaxStarts THEN res.starts - MaxStarts ELSE 0)

\* initiator.start(), in a run that may hold `extra` repeated calls of start.
IniStartWithin(extra) ==
    /\ ini.state = "New"
    /\ ini.starts < MaxStarts \/ Restarts < extra
    /\ LET s == InitiatorStart(ini)
       IN  /\ ini' = [ini EXCEPT !.cpace = s.cpace, !.a = s.a,
                                 !.starts = ini.starts + 1]
           /\ wire' = wire \cup {[from |-> "initiator", salt |-> ini.salt,
                                  pt |-> s.a]}
    /\ UNCHANGED <<ex, net, res, order>>

IniStart == IniStartWithin(0)

\* initiator.start() by a caller that may call it again.
IniStartAgain == IniStartWithin(MaxRestarts)

IniFinish ==
    /\ ini.state = "New"
    /\ \E salt \in Salts, b \in DeliverableIR("initiator") :
          ini' = [ini EXCEPT !.state = "Finished", !.rx_salt = salt,
                             !.rx_b = b,
                             !.out = InitiatorFinish(ini, salt, b)]
    /\ UNCHANGED <<ex, net, res, wire, order>>

\* Responder::new in a run that constructs up to `objects` objects.
ResNewAmong(objects) ==
    /\ Constructed < objects
    /\ res.state = "Absent"
    /\ \E responder_id \in Ids, initiator_id \in Ids, password \in Passwords,
          r \in RandWide, salt \in Salts :
          LET rs == NewResponder(responder_id, initiator_id, password, r, salt)
          IN  res' = [AbsentResponder EXCEPT
                        !.state = "New", !.responder_id = responder_id,
                        !.initiator_id = initiator_id, !.password = password,
                        !.cpace = rs.cpace, !.salt = rs.salt, !.d = rs.d]
    /\ UNCHANGED <<ex, net, ini, wire, order>>

ResNew == ResNewAmong(MaxObjects)

\* responder.start(salt, a), in a run that may hold `extra` repeated calls of
\* start.
ResStartWithin(extra) ==
    /\ res.state = "New"
    /\ res.starts < MaxStarts \/ Restarts < extra
    /\ \E salt \in Salts, a \in DeliverableIR("responder") :
          LET s == ResponderStart(res, salt, a)
          IN  /\ res' = [res EXCEPT !.cpace = s.cpace, !.b = s.b,
                                    !.rx_salt = salt, !.rx_a = a,
                                    !.starts = res.starts + 1]
              /\ wire' = wire \cup {[from |-> "responder", salt |-> res.salt,
                                     pt |-> s.b]}
    /\ UNCHANGED <<ex, net, ini, order>>

ResStart == ResStartWithin(0)

\* responder.start(salt, a) by a caller that may call it again.
ResStartAgain == ResStartWithin(MaxRestarts)

ResFinish ==
    /\ res.state = "New"
    /\ res' = [res EXCEPT !.state = "Finished", !.out = ResponderFinish(res)]
    /\ UNCHANGED <<ex, net, ini, wire, order>>

-----------------------------------------------------------------------------
(* The specification. *)

\* Nothing is constructed yet, and no two encodings have been compared.
Init ==
    /\ order = {}
    /\ ex = [p \in Parties |-> AbsentExchanger]
    /\ net = {}
    /\ ini = AbsentInitiator
    /\ res = AbsentResponder
    /\ wire = {}

Next ==
    \/ \E p \in Parties : ExNew(p)
    \/ \E p \in Parties : ExSend(p)
    \/ \E p \in Parties : ExReceive(p)
    \/ IniNew
    \/ IniStart
    \/ IniFinish
    \/ ResNew
    \/ ResStart
    \/ ResFinish

Spec == Init /\ [][Next]_vars

\* A program that uses the Exchanger alone, as tests::async_exchange does.
NextEx ==
    \/ \E p \in Parties : ExNew(p)
    \/ \E p \in Parties : ExSend(p)
    \/ \E p \in Parties : ExReceive(p)

SpecEx == Init /\ [][NextEx]_vars

\* The constructions alone: what Exchanger::new returns.
NextNew == \E p \in Parties : ExNew(p)

SpecNew == Init /\ [][NextNew]_vars

\* The same program with callers that hold session ids.
NextSession ==
    \/ \E p \in Parties : ExNewSession(p)
    \/ \E p \in Parties : ExSend(p)
    \/ \E p \in Parties : ExReceive(p)

SpecSession == Init /\ [][NextSession]_vars

\* Both APIs, the Exchangers built by callers that hold session ids.
NextAll ==
    \/ \E p \in Parties : ExNewSession(p)
    \/ \E p \in Parties : ExSend(p)
    \/ \E p \in Parties : ExReceive(p)
    \/ IniNew
    \/ IniStart
    \/ IniFinish
    \/ ResNew
    \/ ResStart
    \/ ResFinish

SpecAll == Init /\ [][NextAll]_vars

\* A program that uses the Initiator and the Responder alone, as
\* tests::full_exchange does.
NextIR ==
    \/ IniNew
    \/ IniStart
    \/ IniFinish
    \/ ResNew
    \/ ResStart
    \/ ResFinish

SpecIR == Init /\ [][NextIR]_vars

\* The same program with callers that may call start more than once.
NextRestart ==
    \/ IniNew
    \/ IniStartAgain
    \/ IniFinish
    \/ ResNew
    \/ ResStartAgain
    \/ ResFinish

SpecRestart == Init /\ [][NextRestart]_vars

\* The inputs of a program that runs two exchanges at once, one with two
\* Exchangers and one with the Initiator and the Responder: each party names
\* itself and its peer as the peer does, the passwords of an exchange agree
\* or not, no scalar is zero, send is called once at most, and every point
\* handed over is the peer's or the attacker's arbitrary point.
InterleavedInputs ==
    /\ \A p \in Parties :
          /\ ex[p].state # "Absent" =>
                /\ ex[p].id_a = (IF p = "alice" THEN <<1>> ELSE <<>>)
                /\ ex[p].id_b = (IF p = "alice" THEN <<>> ELSE <<1>>)
                /\ ex[p].d # 0
          /\ ex[p].state = "Finalized" => ~is_identity(ex[p].y_remote)
          /\ Cardinality(SentBy(p)) <= 1
    /\ ex["alice"].state # "Absent" => ex["alice"].password = <<1>>
    /\ ini.state # "Absent" =>
          /\ ini.initiator_id = <<1>> /\ ini.responder_id = <<>>
          /\ ini.password = <<1>> /\ ini.salt = <<1>> /\ ini.d # 0
    /\ ini.state = "Finished" => ~is_identity(ini.rx_b)
    /\ res.state # "Absent" =>
          /\ res.initiator_id = <<1>> /\ res.responder_id = <<>>
          /\ res.salt = <<2>> /\ res.d # 0
    /\ res.starts > 0 => ~is_identity(res.rx_a)

\* Two exchanges at once, their steps interleaved in every order.
NextInterleaved ==
    \/ \E p \in Parties :
          ExNewAmong(p, {NoSession}, AllObjects) /\ InterleavedInputs'
    \/ \E p \in Parties : ExSend(p) /\ InterleavedInputs'
    \/ \E p \in Parties : ExReceive(p) /\ InterleavedInputs'
    \/ IniNewAmong(AllObjects) /\ InterleavedInputs'
    \/ IniStart /\ InterleavedInputs'
    \/ IniFinish /\ InterleavedInputs'
    \/ ResNewAmong(AllObjects) /\ InterleavedInputs'
    \/ ResStart /\ InterleavedInputs'
    \/ ResFinish /\ InterleavedInputs'

SpecInterleaved == Init /\ [][NextInterleaved]_vars

-----------------------------------------------------------------------------
(* What the claims speak of. *)

ExDone == \A p \in Parties : ex[p].state = "Finalized"

\* Each party names itself the way the other names its peer.
ExIdsMatch ==
    /\ ex["alice"].id_a = ex["bea"].id_b
    /\ ex["alice"].id_b = ex["bea"].id_a

ExSamePassword == ex["alice"].password = ex["bea"].password

ExSameSession == ex["alice"].session_id = ex["bea"].session_id

\* p called receive with the point q's send returned.
ExDelivered(p, q) ==
    /\ ex[p].y_remote = ex[q].y
    /\ \E m \in net : m.from = q /\ m.pt = ex[q].y

ExHonestDelivery == ExDelivered("alice", "bea") /\ ExDelivered("bea", "alice")

ExOutputsAgree == Prf16(ex["alice"].out) = Prf16(ex["bea"].out)

IRDone == ini.state = "Finished" /\ res.state = "Finished"

IRIdsMatch ==
    /\ ini.initiator_id = res.initiator_id
    /\ ini.responder_id = res.responder_id

IRSamePassword == ini.password = res.password

\* Each start was called once, and what it returned reached the other party.
IRHonestDelivery ==
    /\ ini.starts = 1
    /\ res.starts = 1
    /\ res.rx_salt = ini.salt
    /\ res.rx_a = ini.a
    /\ ini.rx_salt = res.salt
    /\ ini.rx_b = res.b

IROutputsAgree == Prf16(ini.out) = Prf16(res.out)

-----------------------------------------------------------------------------
(* C1 *)

\* C1: when two Exchangers are built with the ids swapped, the same password
\* (and session id), and each receives the point the other sent, both receive
\* calls return a keyed protocol and the two PRF outputs are equal.
C1_ExchangerAgrees ==
    (ExDone /\ ExIdsMatch /\ ExSamePassword /\ ExSameSession /\ ExHonestDelivery)
        => /\ ExOutputsAgree
           /\ \A p \in Parties : ex[p].out # NoStrobe

C1_Witness ==
    /\ ExDone /\ ExIdsMatch /\ ExSamePassword /\ ExSameSession
    /\ ExHonestDelivery
    /\ ex["alice"].id_a # ex["alice"].id_b
    /\ ex["alice"].y # ex["bea"].y
    /\ \A p \in Parties : ~is_identity(ex[p].y)

-----------------------------------------------------------------------------
(* C2 *)

\* C2: when Initiator and Responder are built with the same initiator id,
\* responder id and password, each start is called once and the salts and
\* points arrive unaltered, the two protocols returned by finish have absorbed
\* the same stream and give the same PRF output.
C2_InitiatorResponderAgree ==
    (IRDone /\ IRIdsMatch /\ IRSamePassword /\ IRHonestDelivery)
        => /\ ini.out.st = res.out.st
           /\ IROutputsAgree

C2_Witness ==
    /\ IRDone /\ IRIdsMatch /\ IRSamePassword /\ IRHonestDelivery
    /\ ini.initiator_id # ini.responder_id
    /\ ini.salt # res.salt
    /\ ini.d # res.d
    /\ ~is_identity(ini.a) /\ ~is_identity(res.b)

-----------------------------------------------------------------------------
(* C3 *)

\* The shared point of a finished party: remote point * d.
ExSharedPoint(p) == PointMul(ex[p].y_remote, ex[p].d)

\* C3: when the shared point K = remote_point * d is the identity, the
\* operation (Exchanger::receive, Initiator::finish, Responder::start) returns
\* InvalidPeerKey and no protocol.
C3_DegenerateKeyRejected ==
    /\ \A p \in Parties :
          (ex[p].state = "Finalized" /\ is_identity(ExSharedPoint(p)))
              => ex[p].out = NoStrobe
    /\ (ini.state = "Finished" /\ is_identity(PointMul(ini.rx_b, ini.d)))
          => ini.out = NoStrobe
    /\ (res.state = "Finished" /\ res.starts > 0
            /\ is_identity(PointMul(res.rx_a, res.d)))
          => res.out = NoStrobe

-----------------------------------------------------------------------------
(* C4 *)

\* C4: in an otherwise honest exchange in which the two parties use different
\* passwords, both parties complete and their PRF outputs differ.
C4_PasswordSensitivity ==
    /\ (ExDone /\ ExIdsMatch /\ ExHonestDelivery /\ ~ExSamePassword)
          => /\ ~ExOutputsAgree
             /\ \A p \in Parties : ex[p].out # NoStrobe
    /\ (IRDone /\ IRIdsMatch /\ IRHonestDelivery /\ ~IRSamePassword)
          => /\ ~IROutputsAgree
             /\ ini.out # NoStrobe /\ res.out # NoStrobe

C4_Witness ==
    /\ ExDone /\ ExIdsMatch /\ ExSameSession /\ ExHonestDelivery
    /\ ~ExSamePassword
    /\ \A p \in Parties : ~is_identity(ex[p].y)

-----------------------------------------------------------------------------
(* C5 *)

\* One of the two ids is altered on one side: the parties agree on one of the
\* two identities and not on the other.
ExOneIdAltered ==
    (ex["alice"].id_a = ex["bea"].id_b) # (ex["alice"].id_b = ex["bea"].id_a)

IROneIdAltered ==
    (ini.initiator_id = res.initiator_id) # (ini.responder_id = res.responder_id)

\* C5: in an otherwise honest exchange in which the local id or the remote id
\* of one side is altered, the two PRF outputs differ, in the Exchanger API
\* and in the Initiator / Responder API.
C5_IdentitySensitivity ==
    /\ (ExDone /\ ExSamePassword /\ ExHonestDelivery /\ ExOneIdAltered)
          => ~ExOutputsAgree
    /\ (IRDone /\ IRSamePassword /\ IRHonestDelivery /\ IROneIdAltered)
          => ~IROutputsAgree

C5_Witness ==
    /\ ExDone /\ ExSamePassword /\ ExSameSession /\ ExHonestDelivery
    /\ ExOneIdAltered
    /\ ex["alice"].id_a # ex["alice"].id_b
    /\ \A p \in Parties : ~is_identity(ex[p].y)

-----------------------------------------------------------------------------
(* C6 *)

\* p was handed the point its own send returned.
ExReflected(p) ==
    /\ ex[p].state = "Finalized"
    /\ ex[p].y_remote = ex[p].y
    /\ \E m \in net : m.from = p /\ m.pt = ex[p].y

\* q is the genuine peer of p: built with the ids swapped and the same
\* password, and handed the point p's send returned.
ExGenuinePeer(q, p) ==
    /\ ex[q].state = "Finalized"
    /\ ex[q].id_a = ex[p].id_b /\ ex[q].id_b = ex[p].id_a
    /\ ex[q].password = ex[p].password
    /\ ExDelivered(q, p)

\* C6 as stated: a party fed its own public point obtains a PRF output that
\* differs from the one its genuine peer obtains from receive of that point.
C6_ReflectionAlwaysDiverges ==
    \A p, q \in Parties :
        (p # q /\ ExReflected(p) /\ ExGenuinePeer(q, p))
            => Prf16(ex[p].out) # Prf16(ex[q].out)

\* C6 as amended: the outputs differ whenever the genuine peer's own public
\* point differs from the reflected one.
C6_ReflectionDiverges ==
    \A p, q \in Parties :
        (p # q /\ ExReflected(p) /\ ExGenuinePeer(q, p) /\ ex[q].y # ex[p].y)
            => Prf16(ex[p].out) # Prf16(ex[q].out)

C6_Witness ==
    /\ ExReflected("alice")
    /\ ExGenuinePeer("bea", "alice")
    /\ ex["bea"].y # ex["alice"].y
    /\ ~is_identity(ex["alice"].y) /\ ~is_identity(ex["bea"].y)

-----------------------------------------------------------------------------
(* C7 *)

\* The point handed to p is not the public point of q.
ExTampered(p, q) == ex[p].y_remote # ex[q].y

\* The point handed to the party `to` is none the other party returned.
IRTampered(to, point) == \A m \in wire : m.from # to => m.pt # point

\* C7: when the point delivered to one party is replaced by a point the real
\* peer did not produce (the other party receiving the real point in the
\* Exchanger API), the two parties never obtain the same PRF output: no
\* operation of the code fails, so the outputs differ.
C7_PointTamperDiverges ==
    /\ \A p, q \in Parties :
          (p # q /\ ExDone /\ ExTampered(p, q) /\ ExDelivered(q, p))
              => ~ExOutputsAgree
    /\ (IRDone /\ res.starts > 0 /\ IRTampered("responder", res.rx_a))
          => ~IROutputsAgree
    /\ (IRDone /\ IRTampered("initiator", ini.rx_b)) => ~IROutputsAgree

C7_Witness ==
    /\ IRDone /\ IRIdsMatch /\ IRSamePassword
    /\ ini.starts = 1 /\ res.starts = 1
    /\ res.rx_salt = ini.salt /\ ini.rx_salt = res.salt
    /\ ini.rx_b = res.b
    /\ res.rx_a = ArbitraryPoint
    /\ ~is_identity(ini.a) /\ res.d # 0

-----------------------------------------------------------------------------
(* C8 *)

\* C8: when the initiator's salt is altered before Responder::start receives
\* it, or the responder's salt before Initiator::finish receives it, the two
\* PRF outputs differ.
C8_SaltTamperDiverges ==
    /\ (IRDone /\ ini.starts > 0 /\ res.starts > 0 /\ res.rx_salt # ini.salt)
          => ~IROutputsAgree
    /\ (IRDone /\ res.starts > 0 /\ ini.rx_salt # res.salt)
          => ~IROutputsAgree

C8_Witness ==
    /\ IRDone /\ IRIdsMatch /\ IRSamePassword
    /\ ini.starts = 1 /\ res.starts = 1
    /\ res.rx_salt # ini.salt
    /\ res.rx_a = ini.a /\ ini.rx_salt = res.salt /\ ini.rx_b = res.b
    /\ ~is_identity(ini.a) /\ ~is_identity(res.b)

-----------------------------------------------------------------------------
(* C9 *)

\* C9: two parties with matching identities and password whose callers hold
\* different session ids (one of them possibly none) obtain different PRF
\* outputs.
C9_SessionIdSensitivity ==
    (ExDone /\ ExIdsMatch /\ ExSamePassword /\ ExHonestDelivery
        /\ ~ExSameSession) => ~ExOutputsAgree

-----------------------------------------------------------------------------
(* C10 *)

\* C10: an Exchanger goes Absent -> Created -> Finalized and no other way;
\* send leaves it Created and unchanged; once receive has consumed it, it
\* never changes again and no point of it is sent again, so receive happens
\* at most once and d is used for no other exchange.
C10_SingleUse ==
    [][\A p \in Parties :
          /\ <<ex[p].state, ex'[p].state>> \in
                {<<"Absent", "Absent">>, <<"Absent", "Created">>,
                 <<"Created", "Created">>, <<"Created", "Finalized">>,
                 <<"Finalized", "Finalized">>}
          /\ (ex[p].state = ex'[p].state) => (ex'[p] = ex[p])
          /\ (ex[p].state = "Finalized") =>
                {m \in net' : m.from = p} = {m \in net : m.from = p}]_vars

C10_Witness ==
    /\ ex["alice"].state = "Finalized"
    /\ \E m \in net : m.from = "alice" /\ m.pt = ex["alice"].y
    /\ ex["bea"].state = "Created"

-----------------------------------------------------------------------------
(* C11 *)

\* What Exchanger::new returned for p's inputs and p's scalar.
ExAsConstructed(p) ==
    NewExchanger(ex[p].id_a, ex[p].id_b, ex[p].password, ex[p].d)

\* The session generator G of p: the public point for the scalar 1.
ExGenerator(p) ==
    NewExchanger(ex[p].id_a, ex[p].id_b, ex[p].password, 1).y

\* The fields of the Exchanger struct of p.
ExStruct(p) == [cpace |-> ex[p].cpace, d |-> ex[p].d, y |-> ex[p].y]

\* The protocol s recorded its local value first: its first transport
\* operation was a send_clr.
SendFirst(s) == s.is_receiver = "Some(false)"

\* The outcome of y_local < y_remote in the receive p has called.
ExLocalLess(p) ==
    EncodingLess(compress(ex[p].y), compress(ex[p].y_remote))

\* C11: every call of send returns the stored point y = G*d and leaves the
\* Exchanger (protocol, d, y) unchanged, so all the calls return the same
\* point; the protocol receive returns afterwards is the one it returns with
\* no send at all.
C11_SendIsPureObservation ==
    /\ [](\A m \in net :
            /\ m.pt = ex[m.from].y
            /\ m.pt = PointMul(ExGenerator(m.from), ex[m.from].d)
            /\ ExStruct(m.from) = ExAsConstructed(m.from))
    /\ [][\A p \in Parties :
            /\ (SentBy(p)' # SentBy(p)) => (ex' = ex)
            /\ (ex[p].state = "Created" /\ ex'[p].state = "Finalized") =>
                  ex'[p].out =
                      ExchangerReceive(ExAsConstructed(p), ex'[p].y_remote,
                                       ExLocalLess(p)')]_vars

C11_Witness ==
    /\ ex["alice"].state = "Finalized"
    /\ Cardinality(SentBy("alice")) = 2
    /\ ~is_identity(ex["alice"].y)
    /\ ex["alice"].y_remote = ex["bea"].y
    /\ ex["bea"].y # ex["alice"].y

-----------------------------------------------------------------------------
(* C12 *)

\* The protocol s is keyed: the last operation it absorbed is key(data).
KeyedWith(s, data) ==
    /\ Len(s.st) >= Len(data) + 2
    /\ SubSeq(s.st, Len(s.st) - Len(data) - 1, Len(s.st))
          = <<FlagA + FlagC, Len(data)>> \o data

\* The two Exchangers differ in password, in an identity or in the session id
\* their callers hold.
ExMismatch == ~ExSamePassword \/ ~ExIdsMatch \/ ~ExSameSession

IRMismatch == ~IRSamePassword \/ ~IRIdsMatch

\* C12: a mismatch of passwords, identities or session ids is reported by no
\* operation, and the only observable difference is that the derived outputs
\* do not match.  Finalization is possible for every constructed party
\* whatever the other party was built with; in an otherwise honest exchange
\* with a mismatch both parties obtain a protocol keyed with their shared
\* point, as in an honest run, and the PRF outputs differ.
C12_MismatchIsSilent ==
    /\ \A p \in Parties : ex[p].state = "Created" => ENABLED ExReceive(p)
    /\ ini.state = "New" => ENABLED IniFinish
    /\ res.state = "New" => ENABLED ResFinish
    /\ (ExDone /\ ExHonestDelivery /\ ExMismatch) =>
          /\ \A p \in Parties :
                KeyedWith(ex[p].out, compress(ExSharedPoint(p)))
          /\ ~ExOutputsAgree
    /\ (IRDone /\ IRHonestDelivery /\ IRMismatch) =>
          /\ KeyedWith(ini.out, compress(PointMul(ini.rx_b, ini.d)))
          /\ KeyedWith(res.out, compress(PointMul(res.rx_a, res.d)))
          /\ ~IROutputsAgree

-----------------------------------------------------------------------------
(* C13 *)

\* The state of each session object, with the messages it produced.
ExSession(p) == <<ex[p], SentBy(p)>>
IniSession == <<ini, {w \in wire : w.from = "initiator"}>>
ResSession == <<res, {w \in wire : w.from = "responder"}>>

\* What Initiator::new and Responder::new returned for the inputs, scalar and
\* salt of the party.
IniAsConstructed ==
    NewInitiator(ini.initiator_id, ini.responder_id, ini.password, ini.d,
                 ini.salt)
ResAsConstructed ==
    NewResponder(res.responder_id, res.initiator_id, res.password, res.d,
                 res.salt)

\* The protocol the party obtains when it runs alone with its inputs, its
\* scalar (and salt) and the values it was handed.
ExAlone(p) ==
    ExchangerReceive(ExAsConstructed(p), ex[p].y_remote, ExLocalLess(p))
IniAlone ==
    InitiatorFinish([cpace |-> InitiatorStart(IniAsConstructed).cpace,
                     d |-> ini.d], ini.rx_salt, ini.rx_b)
ResAlone ==
    ResponderFinish(ResponderStart(ResAsConstructed, res.rx_salt, res.rx_a))

\* The protocols the two Exchangers obtain when their exchange runs alone:
\* each is built with its inputs and scalar and receives what the other's send
\* returned.
ExPairAlone ==
    LET alice == ExAsConstructed("alice")
        bea   == ExAsConstructed("bea")
    IN  {[alice |-> ExchangerReceive(alice, ExchangerSend(bea), less),
          bea   |-> ExchangerReceive(bea, ExchangerSend(alice),
                                     alice.y # bea.y /\ ~less)] :
            less \in EncodingOrders(compress(alice.y), compress(bea.y))}

\* The protocols the Initiator and the Responder obtain when their exchange
\* runs alone: start, start, finish, finish, each handed what the other
\* returned.
IRPairAlone ==
    LET started == InitiatorStart(IniAsConstructed)
        replied == ResponderStart(ResAsConstructed, ini.salt, started.a)
    IN  [ini |-> InitiatorFinish([cpace |-> started.cpace, d |-> ini.d],
                                 res.salt, replied.b),
         res |-> ResponderFinish(replied)]

\* C13: the exchanges share no state.  Every step changes one session object
\* (an Exchanger, the Initiator or the Responder, with its own messages) and
\* leaves all the others as they were; so, whatever the interleaving of the
\* steps of the exchanges, the protocol each party ends with is the one it
\* obtains running alone with the same inputs, scalar and delivered values,
\* and the protocols of an honest exchange, and whether they agree, are those
\* of that exchange run alone.
C13_SessionIndependence ==
    /\ [][/\ \A p, q \in Parties :
              (p # q /\ ExSession(p)' # ExSession(p)) =>
                  /\ ExSession(q)' = ExSession(q)
                  /\ IniSession' = IniSession /\ ResSession' = ResSession
          /\ (IniSession' # IniSession) =>
                  /\ ResSession' = ResSession
                  /\ \A p \in Parties : ExSession(p)' = ExSession(p)
          /\ (ResSession' # ResSession) =>
                  /\ IniSession' = IniSession
                  /\ \A p \in Parties : ExSession(p)' = ExSession(p)]_vars
    /\ [](\A p \in Parties :
            ex[p].state = "Finalized" => ex[p].out = ExAlone(p))
    /\ []((ini.state = "Finished" /\ ini.starts = 1) => ini.out = IniAlone)
    /\ []((res.state = "Finished" /\ res.starts = 1) => res.out = ResAlone)
    /\ []((ExDone /\ ExHonestDelivery) =>
            \E alone \in ExPairAlone :
                /\ ex["alice"].out = alone.alice /\ ex["bea"].out = alone.bea
                /\ ExOutputsAgree <=> Prf16(alone.alice) = Prf16(alone.bea))
    /\ []((IRDone /\ IRHonestDelivery) =>
            /\ ini.out = IRPairAlone.ini /\ res.out = IRPairAlone.res
            /\ IROutputsAgree <=>
                  Prf16(IRPairAlone.ini) = Prf16(IRPairAlone.res))

\* Two complete exchanges in one run, one that agrees and one that does not.
C13_Witness ==
    /\ ExDone /\ ExHonestDelivery
    /\ ex["alice"].y # ex["bea"].y
    /\ ExOutputsAgree
    /\ IRDone /\ IRHonestDelivery
    /\ ~IROutputsAgree

-----------------------------------------------------------------------------
(* C14 *)

\* An honest exchange from new to receive: both Exchangers are built, each
\* sends, each receives the other's point; r_a and r_b are the random bytes
\* they read.  The protocols the two receive calls can return: one pair for
\* each outcome the comparison of the two encodings can have.
HonestRun(id_a, id_b, password, r_a, r_b) ==
    LET alice == NewExchanger(id_a, id_b, password, r_a)
        bea   == NewExchanger(id_b, id_a, password, r_b)
        y_alice == ExchangerSend(alice)
        y_bea   == ExchangerSend(bea)
    IN  {[alice |-> ExchangerReceive(alice, y_bea, less),
          bea   |-> ExchangerReceive(bea, y_alice,
                                     y_alice # y_bea /\ ~less)] :
            less \in EncodingOrders(compress(y_alice), compress(y_bea))}

\* Each party samples from r_a, r_b a scalar that differs from its scalar in
\* the exchange in the state.
FreshScalars(r_a, r_b) ==
    /\ from_bytes_mod_order_wide(r_a) # ex["alice"].d
    /\ from_bytes_mod_order_wide(r_b) # ex["bea"].d

\* C14: when the honest exchange that has just finished is repeated with the
\* same identities and password (and session id), the second run succeeds too
\* and its PRF output differs from the first run's whenever the scalars
\* sampled in the second run differ from those of the first.
C14_FreshKeysWheneverScalarsDiffer ==
    (ExDone /\ ExIdsMatch /\ ExSamePassword /\ ExSameSession
            /\ ExHonestDelivery) =>
        \A r_a \in RandWide, r_b \in RandWide :
            \A second \in HonestRun(ex["alice"].id_a, ex["alice"].id_b,
                                    ex["alice"].password, r_a, r_b) :
                /\ second.alice # NoStrobe /\ second.bea # NoStrobe
                /\ FreshScalars(r_a, r_b) =>
                      Prf16(second.alice) # Prf16(ex["alice"].out)

-----------------------------------------------------------------------------
(* C15 *)

\* The first id added to the protocol of p during construction.
ExFirstId(p) ==
    LET st == ex[p].cpace.st
        at == Len(DomainLabel) + 2
    IN  SubSeq(st, at + 1, at + st[at])

\* C15: the order in which an Exchanger records (local, remote) is fixed by
\* its role and by nothing else.  Hence, once an Exchanger is constructed, the
\* order in which receive records the two points is the same whatever point
\* is delivered; and the same rule orders the identities in construction and
\* the points in finalization: a party that recorded its local id first
\* records its local point first, and one that recorded the remote id first
\* records the remote point first.
C15_RoleOrderedRecording ==
    \A p \in Parties :
        /\ ex[p].state = "Created" =>
              \A y1 \in Deliverable, y2 \in Deliverable :
                  \A less1 \in EncodingOrders(compress(ex[p].y), compress(y1)),
                     less2 \in EncodingOrders(compress(ex[p].y), compress(y2)) :
                      SendFirst(ExchangerReceive(ExStruct(p), y1, less1))
                          = SendFirst(ExchangerReceive(ExStruct(p), y2, less2))
        /\ (ex[p].state = "Finalized" /\ ex[p].id_a # ex[p].id_b) =>
              (SendFirst(ex[p].out) <=> ExFirstId(p) = ex[p].id_a)

-----------------------------------------------------------------------------
(* C16 *)

ExConstructed(p) == ex[p].state # "Absent"

\* p and q were built with the same pair of identities, in either order.
ExSameIdPair(p, q) ==
    {ex[p].id_a, ex[p].id_b} = {ex[q].id_a, ex[q].id_b}

\* The generator the protocol of p was used to extract: the point mapped from
\* the 64 bytes of PRF output, which are the stream absorbed up to the prf.
ExExtracted(p) == from_uniform_bytes(ex[p].cpace.st)

\* The smaller and the larger of the two ids of p.
ExLowId(p) == IF LexLess(ex[p].id_a, ex[p].id_b) THEN ex[p].id_a ELSE ex[p].id_b
ExHighId(p) == IF LexLess(ex[p].id_a, ex[p].id_b) THEN ex[p].id_b ELSE ex[p].id_a

\* C16: the generator G of an Exchanger is a function of the identities and
\* the password only.  The public point is G*d for the G extracted from the
\* protocol; two Exchangers built with the same identity pair and password
\* hold the same protocol and the same G whatever scalars they sampled; a
\* different password or identity pair gives a different G; and the bytes G is
\* mapped from are extracted after the ids were added and the protocol was
\* keyed with the password.
C16_GeneratorIsFunctionOfInputs ==
    \A p \in Parties, q \in Parties :
        (ExConstructed(p) /\ ExConstructed(q)) =>
            /\ ex[p].y = PointMul(ExExtracted(p), ex[p].d)
            /\ ExExtracted(p) = ExGenerator(p)
            /\ (ExSameIdPair(p, q) /\ ex[p].password = ex[q].password) =>
                  /\ ex[p].cpace = ex[q].cpace
                  /\ ExExtracted(p) = ExExtracted(q)
            /\ (~ExSameIdPair(p, q) \/ ex[p].password # ex[q].password) =>
                  ExExtracted(p) # ExExtracted(q)
            /\ ExExtracted(p).gen =
                  prf_out(key(ad(ad(StrobeNew(DomainLabel), ExLowId(p)),
                                 ExHighId(p)), ex[p].password), 64)

C16_Witness ==
    /\ ExConstructed("alice") /\ ExConstructed("bea")
    /\ ExSameIdPair("alice", "bea")
    /\ ex["alice"].id_a # ex["alice"].id_b
    /\ ex["alice"].password = ex["bea"].password
    /\ ex["alice"].d = 1 /\ ex["bea"].d = 2
    /\ ex["alice"].y.gen = ex["bea"].y.gen

-----------------------------------------------------------------------------
(* C17 *)

\* The stream an associated-data operation on `data` absorbs.
AdFrame(data) == <<FlagA, Len(data)>> \o data

\* The protocol of p absorbed, right after the domain label, the two ids as
\* associated data: first `first`, then `second`.
ExAdSequence(p, first, second) ==
    LET st   == ex[p].cpace.st
        from == Len(DomainLabel) + 1
        to   == Len(DomainLabel) + Len(AdFrame(first)) + Len(AdFrame(second))
    IN  /\ Len(st) >= to
        /\ SubSeq(st, from, to) = AdFrame(first) \o AdFrame(second)

\* q was built with the id arguments of p in the opposite order, and the same
\* password.
ExArgsSwapped(p, q) ==
    /\ ex[p].id_a = ex[q].id_b
    /\ ex[p].id_b = ex[q].id_a
    /\ ex[p].password = ex[q].password

\* C17: Exchanger::new adds the two ids in lexical order.  Every constructed
\* Exchanger absorbed the lexically smaller id, then the larger; so
\* Exchanger::new(id_a, id_b, password) and Exchanger::new(id_b, id_a,
\* password) absorb the same sequence, end in the same protocol state and
\* extract the same generator.
C17_IdsInLexicalOrder ==
    \A p \in Parties, q \in Parties :
        /\ ExConstructed(p) =>
              /\ ExAdSequence(p, ExLowId(p), ExHighId(p))
              /\ ~LexLess(ExHighId(p), ExLowId(p))
        /\ (ExConstructed(p) /\ ExConstructed(q) /\ ExArgsSwapped(p, q)) =>
              /\ ex[p].cpace = ex[q].cpace
              /\ ExExtracted(p) = ExExtracted(q)
              /\ (ex[p].d = ex[q].d) => (ex[p].y = ex[q].y)

C17_Witness ==
    /\ ExConstructed("alice") /\ ExConstructed("bea")
    /\ ExArgsSwapped("alice", "bea")
    /\ LexLess(ex["alice"].id_b, ex["alice"].id_a)
    /\ ex["alice"].d # 0 /\ ex["bea"].d # 0

-----------------------------------------------------------------------------
(* C18 *)

\* The protocol s recorded the remote value first.
ReceiveFirst(s) == s.is_receiver = "Some(true)"

\* What the protocol of p absorbed in receive before the final key: the
\* stream after the one it held when constructed, up to the two points.
ExRecorded(p) ==
    LET from == Len(ex[p].cpace.st) + 1
        to   == Len(ex[p].cpace.st) + Len(compress(ex[p].y)) + 2
                    + Len(compress(ex[p].y_remote)) + 2
    IN  SubSeq(ex[p].out.st, from, to)

\* The stream of a party and of its peer when `first` is recorded as sent by
\* one and received by the other, then `second` the other way round.
PairedFrames(first, second) ==
    <<FlagA + FlagT, Len(first)>> \o first
        \o <<FlagI + FlagA + FlagT, Len(second)>> \o second

\* C18: of two honest parties with different compressed points, the one whose
\* point is lexically smaller takes the send-first branch of receive and the
\* other the receive-first branch, and both record the smaller point and then
\* the larger in the same positions, each send matched by the peer's receive.
\* A party whose local and remote compressed points are equal takes the
\* receive-first branch.
C18_LexicalPointOrderPairsUp ==
    /\ \A p \in Parties, q \in Parties :
          (p # q /\ ExDone /\ ExHonestDelivery
                /\ EncodingLess(compress(ex[p].y), compress(ex[q].y))) =>
              /\ SendFirst(ex[p].out) /\ ReceiveFirst(ex[q].out)
              /\ ExRecorded(p) =
                    PairedFrames(compress(ex[p].y), compress(ex[q].y))
              /\ ExRecorded(q) = ExRecorded(p)
    /\ (ExDone /\ ExHonestDelivery
            /\ compress(ex["alice"].y) # compress(ex["bea"].y)) =>
          (EncodingLess(compress(ex["alice"].y), compress(ex["bea"].y))
              \/ EncodingLess(compress(ex["bea"].y), compress(ex["alice"].y)))
    /\ \A p \in Parties :
          (ex[p].state = "Finalized"
                /\ compress(ex[p].y_remote) = compress(ex[p].y)) =>
              ReceiveFirst(ex[p].out)

C18_Witness ==
    /\ ExDone /\ ExHonestDelivery
    /\ EncodingLess(compress(ex["bea"].y), compress(ex["alice"].y))
    /\ ~is_identity(ex["bea"].y)
    /\ ~ExSamePassword

-----------------------------------------------------------------------------
(* C19 *)

\* C19: the exchange completes asynchronously.  As soon as the peer q has
\* sent, p can call receive with q's point, whether or not q has called
\* receive and whether or not p has sent; and whenever p has received q's
\* point, in whatever order the constructions, sends and receives happened,
\* the protocol p holds is the one determined by the inputs and scalars of
\* the two parties.
C19_AsynchronousCompletion ==
    [](\A p \in Parties, q \in Parties :
        p # q =>
            /\ (ex[p].state = "Created" /\ SentBy(q) # {}) =>
                  ENABLED (ExReceive(p) /\ ex'[p].y_remote = ex[q].y)
            /\ (ex[p].state = "Finalized" /\ ExDelivered(p, q)) =>
                  ex[p].out = ExchangerReceive(ExAsConstructed(p),
                                               ExAsConstructed(q).y,
                                               ExLocalLess(p)))

C19_Witness ==
    /\ ex["bea"].state = "Finalized" /\ ExDelivered("bea", "alice")
    /\ SentBy("bea") = {}
    /\ ex["alice"].state = "Created"
    /\ ex["alice"].y # ex["bea"].y
    /\ ~is_identity(ex["alice"].y) /\ ~is_identity(ex["bea"].y)

-----------------------------------------------------------------------------
(* C20 *)

\* The Initiator after n calls of start on the one Initiator::new returned.
RECURSIVE IniStarted(_)
IniStarted(n) ==
    IF n = 0 THEN [cpace |-> IniAsConstructed.cpace, a |-> Identity]
    ELSE InitiatorStart([cpace |-> IniStarted(n - 1).cpace,
                         salt |-> ini.salt, d |-> ini.d])

\* The points the calls of Initiator::start returned.
IniPoints == {w.pt : w \in {m \in wire : m.from = "initiator"}}

\* Each call of Initiator::start appended send_clr(salt) and send_clr(point)
\* to the protocol and derived the generator from the protocol at that call.
IniStartsRecorded ==
    (ini.state = "New") =>
        /\ ini.cpace = IniStarted(ini.starts).cpace
        /\ ini.starts > 0 => ini.a = IniStarted(ini.starts).a
        /\ ini.starts > 0 =>
              LET before == IniStarted(ini.starts - 1).cpace
                  sent   == send_clr(before, ini.salt)
              IN  ini.cpace = send_clr(prf_state(sent, 64), compress(ini.a))

\* The final PRF outputs agree only if each start was called exactly once.
AgreeOnlyIfStartedOnce ==
    (IRDone /\ IROutputsAgree) => (ini.starts = 1 /\ res.starts = 1)

\* C20 as stated: Initiator::start appends to the protocol at every call, the
\* final PRF outputs agree only if Initiator::start and Responder::start were
\* each called exactly once, and a second Initiator::start returns a point
\* different from the first.
C20_SecondStartAlwaysDiffers ==
    /\ IniStartsRecorded
    /\ AgreeOnlyIfStartedOnce
    /\ ini.starts = 2 => Cardinality(IniPoints) = 2

\* C20 as amended: the same, the second Initiator::start returning a point
\* different from the first whenever the initiator's scalar is not zero (with
\* the scalar zero both calls return the identity).
C20_StartIsNotPure ==
    /\ IniStartsRecorded
    /\ AgreeOnlyIfStartedOnce
    /\ (ini.starts = 2 /\ ini.d # 0) => Cardinality(IniPoints) = 2
    /\ (ini.starts = 2 /\ ini.d = 0) => IniPoints = {Identity}

C20_Witness ==
    /\ IRDone /\ IRIdsMatch /\ IRSamePassword
    /\ ini.starts = 2 /\ res.starts = 1
    /\ ini.d # 0 /\ res.d # 0
    /\ res.rx_salt = ini.salt /\ res.rx_a = ini.a
    /\ ini.rx_salt = res.salt /\ ini.rx_b = res.b
    /\ ~IROutputsAgree

====
